---- MODULE Spec2Model ----
(***************************************************************************)
(* Model of src-tauri/src/models/feeds.rs: the FeedStatus text codec, the  *)
(* row -> Feed mapping and the five repository operations over the feeds   *)
(* table.  The table is a sequence of rows in rowid order; each operation  *)
(* records its call (op, arg), the rows it found (pre) and its result      *)
(* (res) until the caller takes the result (Return), so that the contract  *)
(* of every call can be read off the state.                                *)
(***************************************************************************)
EXTENDS Integers, Sequences, FiniteSets, TLC

VARIABLES rows, seq, op, arg, res, pre

vars == <<rows, seq, op, arg, res, pre>>

\* Largest id the store hands out before the model stops creating rows.
MaxId == 2

\* Values callers supply.
Titles == {"A", "B"}
Links == {"a", "b"}
Instants == {10, 20}
Ids == 0 .. MaxId
Texts == {"subscribed", "unsubscribed", "SUBSCRIBED", " subscribed ", ""}
ExternalTexts == {"SUBSCRIBED", " subscribed "}

\* Option<T> is a set with at most one element.
None == {}
Some(x) == {x}
TheOne(S) == CHOOSE x \in S : TRUE

(***************************************************************************)
(* FeedStatus and its codec                                                *)
(***************************************************************************)
FeedStatus == {"Subscribed", "Unsubscribed"}

\* Variant: the status written with its Debug name instead of Display.
to_string_debug(s) == s

to_string(s) ==
    CASE s = "Subscribed" -> "subscribed"
      [] s = "Unsubscribed" -> "unsubscribed"

\* Variant: a parser that folds case and trims blanks.
from_str_lenient(x) ==
    CASE x \in {"subscribed", "SUBSCRIBED", " subscribed "} -> {"Subscribed"}
      [] x = "unsubscribed" -> {"Unsubscribed"}
      [] OTHER -> {}

\* Result<FeedStatus, ()>: Some(status) is Ok(status), None is Err(()).
from_str(x) ==
    CASE x = "subscribed" -> Some("Subscribed")
      [] x = "unsubscribed" -> Some("Unsubscribed")
      [] OTHER -> None

(***************************************************************************)
(* Call arguments and results                                              *)
(***************************************************************************)
NoArg ==
    [id |-> None, title |-> None, link |-> None, status |-> None,
     checked_at |-> None, text |-> None, clock |-> None]

FeedToCreate == [title : Titles, link : Links]

FeedToUpdate ==
    [id : Ids,
     title : {None} \cup {Some(t) : t \in Titles},
     link : {None} \cup {Some(l) : l \in Links},
     status : {None} \cup {Some(s) : s \in FeedStatus},
     checked_at : {None} \cup {Some(t) : t \in Instants}]

NoRes ==
    [kind |-> "None", err |-> "", n |-> 0, feeds |-> <<>>, status |-> None,
     text |-> None]

OkCount(k) == [NoRes EXCEPT !.kind = "Ok", !.n = k]
OkFeeds(fs) == [NoRes EXCEPT !.kind = "Ok", !.feeds = fs]
StoreError(e) == [NoRes EXCEPT !.kind = "Err", !.err = e]
Panic == [NoRes EXCEPT !.kind = "Panic"]

(***************************************************************************)
(* The store: the feeds table behind open_connection()                     *)
(***************************************************************************)
DefaultStatus == "subscribed"

NextId(s) == s + 1

\* INSERT of the three written columns: the id is store-assigned and the
\* status column takes the schema default; the row is appended in rowid order.
ExecInsert(rs, s, vals) ==
    [rows |-> Append(rs, [id |-> NextId(s), title |-> vals.title,
                          link |-> vals.link, status |-> DefaultStatus,
                          checked_at |-> vals.checked_at]),
     seq |-> NextId(s),
     n |-> 1]

(***************************************************************************)
(* Row -> Feed mapping                                                     *)
(***************************************************************************)
\* Some(feed), or None when the unwrap() of the status parse panics.
FeedFrom(row) ==
    LET st == from_str(row.status)
    IN  IF st = None
        THEN None
        ELSE Some([id |-> row.id, title |-> row.title, link |-> row.link,
                   status |-> TheOne(st), checked_at |-> row.checked_at])

(***************************************************************************)
(* Repository operations, as functions of the table                        *)
(***************************************************************************)
\* Variant: the two text values bound to each other's column.
create_vals_swapped(a, clock) ==
    [title |-> a.link, link |-> a.title, checked_at |-> clock]

create_vals(a, clock) ==
    [title |-> a.title, link |-> a.link, checked_at |-> clock]

create(a, clock, rs, s) ==
    LET done == ExecInsert(rs, s, create_vals(a, clock))
    IN  [res |-> OkCount(done.n), rows |-> done.rows, seq |-> done.seq]

read_all(rs) ==
    LET fs == [i \in 1 .. Len(rs) |-> FeedFrom(rs[i])]
    IN  IF \E i \in 1 .. Len(rs) : fs[i] = None
        THEN Panic
        ELSE OkFeeds([i \in 1 .. Len(rs) |-> TheOne(fs[i])])

\* Variant: the select built without its and_where.
read_where_any(row, id) == TRUE

read_where(row, id) == row.id = id

read(rs, id) ==
    LET m == {i \in 1 .. Len(rs) : read_where(rs[i], id)}
    IN  IF m = {}
        THEN OkFeeds(<<>>)
        ELSE LET first == CHOOSE i \in m : \A j \in m : i <= j
                 f == FeedFrom(rs[first])
             IN  IF f = None THEN Panic ELSE OkFeeds(<<TheOne(f)>>)

\* Variant: the link branch left out of the SET list.
update_vals_no_link(a) ==
    LET cols == {c \in {"title", "status", "checked_at"} : a[c] # None}
    IN  [c \in cols |-> IF c = "status"
                        THEN to_string(TheOne(a.status))
                        ELSE TheOne(a[c])]

update_vals(a) ==
    LET cols == {c \in {"title", "link", "status", "checked_at"} : a[c] # None}
    IN  [c \in cols |-> IF c = "status"
                        THEN to_string(TheOne(a.status))
                        ELSE TheOne(a[c])]

\* Variant: the update built without its and_where.
update_where_any(row, id) == TRUE

update_where(row, id) == row.id = id

\* An UPDATE whose SET list is empty is not a statement the store accepts.
update(a, rs) ==
    LET vals == update_vals(a)
        m == {i \in 1 .. Len(rs) : update_where(rs[i], a.id)}
    IN  IF DOMAIN vals = {}
        THEN [res |-> StoreError("syntax"), rows |-> rs]
        ELSE [res |-> OkCount(Cardinality(m)),
              rows |-> [i \in 1 .. Len(rs) |->
                          IF i \in m
                          THEN [c \in DOMAIN rs[i] |->
                                  IF c \in DOMAIN vals THEN vals[c] ELSE rs[i][c]]
                          ELSE rs[i]]]

\* Variant: the delete built without its and_where.
delete_where_any(row, id) == TRUE

\* Variant: the delete comparing with lte instead of eq.
delete_where_upto(row, id) == row.id <= id

delete_where(row, id) == row.id = id

delete(id, rs) ==
    LET m == {i \in 1 .. Len(rs) : delete_where(rs[i], id)}
    IN  [res |-> OkCount(Cardinality(m)),
         rows |-> SelectSeq(rs, LAMBDA r : ~delete_where(r, id))]

(***************************************************************************)
(* The state machine                                                       *)
(***************************************************************************)
Init ==
    /\ rows = <<>>
    /\ seq = 0
    /\ op = "idle"
    /\ arg = NoArg
    /\ res = NoRes
    /\ pre = <<>>

\* open_connection()? failed: the call returns the store's error before it
\* looks at its argument.
Refused(name) ==
    /\ op' = name
    /\ arg' = NoArg
    /\ res' = StoreError("open_connection")
    /\ pre' = rows
    /\ UNCHANGED <<rows, seq>>

\* clock is the reading Utc::now() returns inside the call.
Create(a, clock, conn) ==
    /\ op = "idle"
    /\ seq < MaxId
    /\ LET call == [NoArg EXCEPT !.title = Some(a.title), !.link = Some(a.link),
                                 !.clock = Some(clock)]
       IN  IF ~conn
           THEN Refused("create")
           ELSE LET done == create(a, clock, rows, seq)
                IN  /\ op' = "create"
                    /\ arg' = call
                    /\ res' = done.res
                    /\ rows' = done.rows
                    /\ seq' = done.seq
                    /\ pre' = rows

ReadAll(conn) ==
    /\ op = "idle"
    /\ IF ~conn
       THEN Refused("read_all")
       ELSE /\ op' = "read_all"
            /\ arg' = NoArg
            /\ res' = read_all(rows)
            /\ pre' = rows
            /\ UNCHANGED <<rows, seq>>

Read(id, conn) ==
    /\ op = "idle"
    /\ LET call == [NoArg EXCEPT !.id = Some(id)]
       IN  IF ~conn
           THEN Refused("read")
           ELSE /\ op' = "read"
                /\ arg' = call
                /\ res' = read(rows, id)
                /\ pre' = rows
                /\ UNCHANGED <<rows, seq>>

Update(a, conn) ==
    /\ op = "idle"
    /\ LET call == [NoArg EXCEPT !.id = Some(a.id), !.title = a.title,
                                 !.link = a.link, !.status = a.status,
                                 !.checked_at = a.checked_at]
       IN  IF ~conn
           THEN Refused("update")
           ELSE LET done == update(a, rows)
                IN  /\ op' = "update"
                    /\ arg' = call
                    /\ res' = done.res
                    /\ rows' = done.rows
                    /\ pre' = rows
                    /\ UNCHANGED seq

Delete(id, conn) ==
    /\ op = "idle"
    /\ LET call == [NoArg EXCEPT !.id = Some(id)]
       IN  IF ~conn
           THEN Refused("delete")
           ELSE LET done == delete(id, rows)
                IN  /\ op' = "delete"
                    /\ arg' = call
                    /\ res' = done.res
                    /\ rows' = done.rows
                    /\ pre' = rows
                    /\ UNCHANGED seq

FromStr(t) ==
    /\ op = "idle"
    /\ LET r == from_str(t)
       IN  /\ op' = "from_str"
           /\ arg' = [NoArg EXCEPT !.text = Some(t)]
           /\ res' = [NoRes EXCEPT !.kind = IF r = None THEN "Err" ELSE "Ok",
                                   !.err = IF r = None THEN "InvalidStatus" ELSE "",
                                   !.status = r]
           /\ pre' = rows
           /\ UNCHANGED <<rows, seq>>

Fmt(s) ==
    /\ op = "idle"
    /\ op' = "to_string"
    /\ arg' = [NoArg EXCEPT !.status = Some(s)]
    /\ res' = [NoRes EXCEPT !.kind = "Ok", !.text = Some(to_string(s))]
    /\ pre' = rows
    /\ UNCHANGED <<rows, seq>>

\* The caller takes the result; the next call starts from the table as it is.
Return ==
    /\ op # "idle"
    /\ op' = "idle"
    /\ arg' = NoArg
    /\ res' = NoRes
    /\ pre' = <<>>
    /\ UNCHANGED <<rows, seq>>

\* A writer other than this module overwrites the status text of a row.
ExternalWrite(i, t) ==
    /\ op = "idle"
    /\ i \in 1 .. Len(rows)
    /\ rows' = [rows EXCEPT ![i].status = t]
    /\ UNCHANGED <<seq, op, arg, res, pre>>

Next ==
    \/ \E a \in FeedToCreate, clock \in Instants, conn \in BOOLEAN :
          Create(a, clock, conn)
    \/ \E conn \in BOOLEAN : ReadAll(conn)
    \/ \E id \in Ids, conn \in BOOLEAN : Read(id, conn)
    \/ \E a \in FeedToUpdate, conn \in BOOLEAN : Update(a, conn)
    \/ \E id \in Ids, conn \in BOOLEAN : Delete(id, conn)
    \/ \E t \in Texts : FromStr(t)
    \/ \E s \in FeedStatus : Fmt(s)
    \/ Return

Spec == Init /\ [][Next]_vars

NextExt ==
    \/ Next
    \/ \E i \in 1 .. MaxId, t \in ExternalTexts : ExternalWrite(i, t)

SpecExt == Init /\ [][NextExt]_vars

(***************************************************************************)
(* Properties                                                              *)
(***************************************************************************)
\* The call in hand got a database handle from open_connection().
Opened == ~(res.kind = "Err" /\ res.err = "open_connection")

Supplied(a) == {c \in {"title", "link", "status", "checked_at"} : a[c] # None}

Present(rs, id) == \E i \in 1 .. Len(rs) : rs[i].id = id

\* The persisted text of a status, as the schema documents it.
StoredText(s) == IF s = "Subscribed" THEN "subscribed" ELSE "unsubscribed"

Absent == OkFeeds(<<>>)

\* C1: a create that got a handle returns 1, appends exactly one row and
\* leaves every earlier row as it was; the new row carries the title and link
\* of the call, the status text of Subscribed, an id no earlier row has, and
\* the clock reading taken inside the call.
C1_CreateAddsOneRow ==
    (op = "create" /\ Opened) =>
        /\ res = OkCount(1)
        /\ Len(rows) = Len(pre) + 1
        /\ SubSeq(rows, 1, Len(pre)) = pre
        /\ LET new == rows[Len(rows)]
           IN  /\ new.title = TheOne(arg.title)
               /\ new.link = TheOne(arg.link)
               /\ new.status = StoredText("Subscribed")
               /\ FeedFrom(new) # None
               /\ TheOne(FeedFrom(new)).status = "Subscribed"
               /\ new.checked_at = TheOne(arg.clock)
               /\ ~Present(pre, new.id)

C1_Witness ==
    /\ op = "create"
    /\ res.kind = "Ok"
    /\ Len(pre) = 1
    /\ pre[1].status = "unsubscribed"
    /\ rows[2].status = "subscribed"

\* C2: an update that supplies at least one field for an existing id returns
\* 1; in that row every supplied field holds the supplied value (the status as
\* its persisted text), every other field and the id are as before, and every
\* other row is as before.
C2_UpdateIsPartial ==
    (op = "update" /\ Opened /\ Supplied(arg) # {} /\ Present(pre, TheOne(arg.id))) =>
        /\ res = OkCount(1)
        /\ Len(rows) = Len(pre)
        /\ \A i \in 1 .. Len(pre) :
              IF pre[i].id # TheOne(arg.id)
              THEN rows[i] = pre[i]
              ELSE /\ rows[i].id = pre[i].id
                   /\ rows[i].title =
                        IF arg.title = None THEN pre[i].title ELSE TheOne(arg.title)
                   /\ rows[i].link =
                        IF arg.link = None THEN pre[i].link ELSE TheOne(arg.link)
                   /\ rows[i].status =
                        IF arg.status = None
                        THEN pre[i].status
                        ELSE StoredText(TheOne(arg.status))
                   /\ rows[i].checked_at =
                        IF arg.checked_at = None
                        THEN pre[i].checked_at
                        ELSE TheOne(arg.checked_at)

C2_Witness ==
    /\ op = "update"
    /\ res = OkCount(1)
    /\ Len(pre) = 2
    /\ arg.id = Some(1)
    /\ arg.title = None
    /\ arg.link = Some("b")
    /\ arg.status = Some("Unsubscribed")
    /\ arg.checked_at = None
    /\ pre[1].link = "a"
    /\ pre[1].status = "subscribed"
    /\ rows[1].status = "unsubscribed"

\* C3: an update that supplies no field and got a handle returns Ok(0) and
\* leaves every row as it was.
C3_EmptyUpdateIsNoOp ==
    (op = "update" /\ Opened /\ Supplied(arg) = {}) =>
        /\ res = OkCount(0)
        /\ rows = pre

\* C4: when a row carries a status text outside the two known spellings,
\* read_all and read of that row's id return a DataIntegrityError value to
\* the caller and leave the store as it was.
C4_BadStatusIsTypedError ==
    /\ (op = "read_all" /\ Opened
            /\ \E i \in 1 .. Len(pre) : from_str(pre[i].status) = None) =>
          /\ res.kind = "Err"
          /\ res.err = "DataIntegrityError"
          /\ rows = pre
    /\ (op = "read" /\ Opened
            /\ \E i \in 1 .. Len(pre) :
                  pre[i].id = TheOne(arg.id) /\ from_str(pre[i].status) = None) =>
          /\ res.kind = "Err"
          /\ res.err = "DataIntegrityError"
          /\ rows = pre

\* C5: a delete of a present id returns 1, a delete of an absent id returns 0
\* and changes nothing; the delete that follows at once returns 0 without
\* error, and after either of the two read of that id is absent.
C5_DeleteIdempotent ==
    (op = "delete" /\ Opened) =>
        LET id == TheOne(arg.id)
            again == delete(id, rows)
        IN  /\ res = OkCount(IF Present(pre, id) THEN 1 ELSE 0)
            /\ ~Present(pre, id) => rows = pre
            /\ read(rows, id) = Absent
            /\ again.res = OkCount(0)
            /\ read(again.rows, id) = Absent

C5_Witness ==
    /\ op = "delete"
    /\ res = OkCount(1)
    /\ Len(pre) = 2
    /\ Len(rows) = 1

\* C6: with every status valid, read of an id returns the very Feed read_all
\* lists under that id, and absent when read_all lists none; neither read
\* changes the store.
C6_ReadAgreesWithReadAll ==
    /\ (op = "read" /\ Opened) =>
          LET all == read_all(rows)
              id == TheOne(arg.id)
              hits == {i \in 1 .. Len(all.feeds) : all.feeds[i].id = id}
          IN  /\ rows = pre
              /\ all.kind = "Ok"
              /\ res.kind = "Ok"
              /\ IF hits = {}
                 THEN res = Absent
                 ELSE \A i \in hits : res.feeds = <<all.feeds[i]>>
    /\ (op = "read_all" /\ Opened) =>
          /\ rows = pre
          /\ res.kind = "Ok"
          /\ \A i \in 1 .. Len(res.feeds) :
                read(rows, res.feeds[i].id) = OkFeeds(<<res.feeds[i]>>)

C6_Witness ==
    /\ op = "read"
    /\ arg.id = Some(2)
    /\ Len(rows) = 2
    /\ Len(res.feeds) = 1
    /\ res.feeds[1].status = "Unsubscribed"

\* C7: Render gives "subscribed" and "unsubscribed", Parse of a rendered
\* status gives the status back, and Parse of any other text, differing case,
\* surrounding blanks and the empty text included, fails with InvalidStatus.
C7_StatusRoundTrip ==
    /\ op = "to_string" =>
          /\ res.text = Some(StoredText(TheOne(arg.status)))
          /\ from_str(TheOne(res.text)) = arg.status
    /\ op = "from_str" =>
          LET t == TheOne(arg.text)
          IN  IF t \in {"subscribed", "unsubscribed"}
              THEN /\ res.kind = "Ok"
                   /\ res.status # None
                   /\ StoredText(TheOne(res.status)) = t
                   /\ TheOne(res.status) \in FeedStatus
              ELSE /\ res.kind = "Err"
                   /\ res.err = "InvalidStatus"
                   /\ res.status = None

C7_Witness ==
    /\ op = "from_str"
    /\ arg.text = Some("SUBSCRIBED")
    /\ res.kind = "Err"

\* C8: an update that supplies at least one field for an id no row has returns
\* Ok(0), creates and changes no row, and read of that id is still absent.
C8_UpdateMissingId ==
    (op = "update" /\ Opened /\ Supplied(arg) # {} /\ ~Present(pre, TheOne(arg.id))) =>
        /\ res = OkCount(0)
        /\ rows = pre
        /\ read(rows, TheOne(arg.id)) = Absent

C8_Witness ==
    /\ op = "update"
    /\ res = OkCount(0)
    /\ arg.title = Some("B")
    /\ arg.id = Some(1)
    /\ Len(pre) = 1
    /\ pre[1].title = "A"

C10_StoredStatusValid ==
    /\ \A i \in 1 .. Len(rows) : rows[i].status \in {"subscribed", "unsubscribed"}
    /\ \A i, j \in 1 .. Len(rows) : rows[i].id = rows[j].id => i = j
    /\ \A i \in 1 .. Len(rows) : FeedFrom(rows[i]) # None
    /\ read_all(rows).kind = "Ok"
    /\ \A id \in Ids : read(rows, id).kind = "Ok"
    /\ res.kind # "Panic"

C10_Witness ==
    /\ op = "update"
    /\ Len(rows) = 2
    /\ rows[1].status = "unsubscribed"
    /\ rows[2].status = "subscribed"
    /\ pre[1].status = "subscribed"

====
